---- MODULE Spec2Model ----
(***************************************************************************)
(* Product catalog API: the inventory reconciler (single and bulk          *)
(* inventory updates), category deletion, the low-stock and faceted search *)
(* queries, the inventory reports and the admin middleware, as state       *)
(* machines over the product, category and user collections.  `pc` is the  *)
(* position and the locals of a handler suspended at an await.             *)
(*                                                                         *)
(* A collection is a sequence of documents in natural (insertion) order,   *)
(* which is the order an unsorted find() returns them in.  A JSON object   *)
(* is a function from field names to values; a field the request does not  *)
(* carry is `undefined` in the handler and is outside the DOMAIN here.     *)
(***************************************************************************)
EXTENDS Integers, Sequences, FiniteSets, TLC

VARIABLES products, categories, users, req, res, pre, nops, pc

vars == <<products, categories, users, req, res, pre, nops, pc>>

(***************************************************************************)
(* Bounds of the model.                                                    *)
(***************************************************************************)
MaxOps == 2
MaxDeltas == 2
MaxBatch == 2
MaxProducts == 2
MaxStatProducts == 3

(***************************************************************************)
(* JSON values.                                                            *)
(***************************************************************************)
Null == "null"
Undefined == "undefined"
NoFields == <<>>

Has(obj, f) == f \in DOMAIN obj

OptField(f, S) == {NoFields} \cup {f :> x : x \in S}

JsArray(items) == [kind |-> "array", items |-> items]
JsString(s) == [kind |-> "string", str |-> s]

IsArray(v) == v.kind = "array"

\* JavaScript truthiness of a string: only the empty string is falsy.
TruthyStr(s) == s # ""

SeqsUpTo(S, n) == UNION {[1..k -> S] : k \in 0..n}

(***************************************************************************)
(* The product store (Product.findById, product.save).                     *)
(***************************************************************************)
Ids(ps) == {ps[i]._id : i \in DOMAIN ps}

Exists(ps, id) == id \in Ids(ps)

IndexOf(ps, id) == CHOOSE i \in DOMAIN ps : ps[i]._id = id

FindById(ps, id) == ps[IndexOf(ps, id)]

Save(ps, p) == [ps EXCEPT ![IndexOf(ps, p._id)] = p]

\* A schema without validators on the stocks.
ValidProductAny(p) == TRUE

\* The Product schema's validators, run by product.save() before it writes:
\* the main stock and every variant's stock are non-negative numbers.  A
\* document that fails them is not written and save() rejects.
ValidProduct(p) ==
    /\ p.stock >= 0
    /\ \A i \in DOMAIN p.variants : p.variants[i].stock >= 0

(***************************************************************************)
(* Inventory reconciler.                                                   *)
(***************************************************************************)
\* product.variants.findIndex(v => v.size === d.size && v.color === d.color):
\* the first matching index, 0 standing for JavaScript's -1.
FindVariantIndex(vs, d) ==
    LET hits == {i \in DOMAIN vs : vs[i].size = d.size /\ vs[i].color = d.color}
    IN  IF hits = {} THEN 0 ELSE CHOOSE i \in hits : \A j \in hits : i <= j

MergeVariantAppendAlways(vs, d) == Append(vs, d)

MergeVariantMoveToEnd(vs, d) ==
    Append(SelectSeq(vs, LAMBDA v : ~(v.size = d.size /\ v.color = d.color)), d)

MergeVariant(vs, d) ==
    LET i == FindVariantIndex(vs, d)
    IN  IF i >= 1 THEN [vs EXCEPT ![i].stock = d.stock] ELSE Append(vs, d)

RECURSIVE MergeVariants(_, _)
MergeVariants(vs, ds) ==
    IF ds = <<>> THEN vs
    ELSE MergeVariants(MergeVariant(vs, Head(ds)), Tail(ds))

SetStockIfTruthy(p, body) ==
    IF Has(body, "stock") /\ body.stock # 0 THEN [p EXCEPT !.stock = body.stock] ELSE p

SetStock(p, body) ==
    IF Has(body, "stock") THEN [p EXCEPT !.stock = body.stock] ELSE p

\* `location !== undefined` in place of the truthiness test.
SetLocationIfDefined(p, body) ==
    IF Has(body, "location") THEN [p EXCEPT !.inventoryLocation = body.location] ELSE p

SetLocation(p, body) ==
    IF Has(body, "location") /\ TruthyStr(body.location)
    THEN [p EXCEPT !.inventoryLocation = body.location] ELSE p

SetStatus(p, body) ==
    IF Has(body, "status") /\ TruthyStr(body.status)
    THEN [p EXCEPT !.inventoryStatus = body.status] ELSE p

SetVariants(p, body) ==
    IF Has(body, "variants") /\ IsArray(body.variants)
    THEN [p EXCEPT !.variants = MergeVariants(p.variants, body.variants.items)]
    ELSE p

ApplyInventoryUpdate(p, body) ==
    SetVariants(SetStatus(SetLocation(SetStock(p, body), body), body), body)

NotFound == [status |-> 404, message |-> "Product not found"]

\* The handlers' catch block.
ServerError == [status |-> 500, message |-> "Server Error"]

\* A handler that inserts the document it was asked to update and did not find.
UpdateInventoryResultUpsert(ps, id, body) ==
    LET fresh == [_id |-> id, name |-> "", description |-> "", createdAt |-> 0,
                  price |-> 0, stock |-> 0,
                  inventoryLocation |-> Undefined, inventoryStatus |-> Undefined,
                  category |-> Null, variants |-> <<>>]
        base == IF Exists(ps, id) THEN ps ELSE Append(ps, fresh)
        updated == ApplyInventoryUpdate(FindById(base, id), body)
    IN  [products |-> Save(base, updated),
         res |-> IF Exists(ps, id) THEN [status |-> 200, product |-> updated]
                 ELSE NotFound]

\* PUT /api/inventory/:id
UpdateInventoryResult(ps, id, body) ==
    IF ~Exists(ps, id) THEN [products |-> ps, res |-> NotFound]
    ELSE LET updated == ApplyInventoryUpdate(FindById(ps, id), body)
         IN  IF ~ValidProduct(updated)
             THEN [products |-> ps, res |-> ServerError]
             ELSE [products |-> Save(ps, updated),
                   res |-> [status |-> 200, product |-> updated]]

BulkFailure(id) ==
    [productId |-> id, success |-> FALSE, message |-> "Product not found"]

BulkSuccess(id) == [productId |-> id, success |-> TRUE]

\* One turn of the loop `for (const update of updates)`.  `threw` is set when
\* save() rejects: the exception leaves the loop, so no later turn runs.
BulkStepDropMissing(acc, item) ==
    IF acc.threw \/ ~Exists(acc.products, item.productId)
    THEN acc
    ELSE [acc EXCEPT !.products = Save(acc.products,
                        ApplyInventoryUpdate(FindById(acc.products, item.productId), item)),
                     !.results = Append(acc.results, BulkSuccess(item.productId))]

BulkStep(acc, item) ==
    IF acc.threw THEN acc
    ELSE IF ~Exists(acc.products, item.productId)
    THEN [acc EXCEPT !.results = Append(acc.results, BulkFailure(item.productId))]
    ELSE LET updated == ApplyInventoryUpdate(FindById(acc.products, item.productId), item)
         IN  IF ~ValidProduct(updated)
             THEN [acc EXCEPT !.threw = TRUE]
             ELSE [acc EXCEPT !.products = Save(acc.products, updated),
                              !.results = Append(acc.results, BulkSuccess(item.productId))]

RECURSIVE BulkLoop(_, _)
BulkLoop(acc, items) ==
    IF items = <<>> THEN acc
    ELSE BulkLoop(BulkStep(acc, Head(items)), Tail(items))

\* PUT /api/inventory/bulk-update
BulkUpdateResult(ps, body) ==
    IF ~Has(body, "updates") \/ ~IsArray(body.updates)
    THEN [products |-> ps,
          res |-> [status |-> 400, message |-> "Invalid updates format"]]
    ELSE LET done == BulkLoop([products |-> ps, results |-> <<>>, threw |-> FALSE],
                              body.updates.items)
         IN  IF done.threw
             THEN [products |-> done.products, res |-> ServerError]
             ELSE [products |-> done.products,
                   res |-> [status |-> 200, results |-> done.results]]

(***************************************************************************)
(* Category deletion.                                                      *)
(***************************************************************************)
CategoryIds(cs) == {c._id : c \in cs}

\* Product.updateMany({category: id}, {$set: {category: null}})
DetachKeepReferences(ps, id) == ps

DetachCategory(ps, id) ==
    [i \in DOMAIN ps |->
        IF ps[i].category = id THEN [ps[i] EXCEPT !.category = Null] ELSE ps[i]]

\* Category.findByIdAndDelete(id)
RemoveCategory(cs, id) == {c \in cs : c._id # id}

DeleteCategoryResult(ps, cs, id) ==
    IF id \notin CategoryIds(cs)
    THEN [products |-> ps, categories |-> cs,
          res |-> [status |-> 404, message |-> "Category not found"]]
    ELSE [products |-> DetachCategory(ps, id),
          categories |-> RemoveCategory(cs, id),
          res |-> [status |-> 200,
                   message |-> "Category deleted successfully and associated products updated"]]

(***************************************************************************)
(* Strings the handlers parse are sequences of one-character strings.      *)
(***************************************************************************)
DigitChars == <<"0", "1", "2", "3", "4", "5", "6", "7", "8", "9">>

IsDigit(c) == \E k \in DOMAIN DigitChars : DigitChars[k] = c

DigitValue(c) == (CHOOSE k \in DOMAIN DigitChars : DigitChars[k] = c) - 1

RECURSIVE DropSpaces(_)
DropSpaces(s) == IF s # <<>> /\ Head(s) = " " THEN DropSpaces(Tail(s)) ELSE s

RECURSIVE DigitPrefix(_)
DigitPrefix(s) ==
    IF s # <<>> /\ IsDigit(Head(s)) THEN <<Head(s)>> \o DigitPrefix(Tail(s)) ELSE <<>>

RECURSIVE DigitsToNat(_, _)
DigitsToNat(s, acc) ==
    IF s = <<>> THEN acc ELSE DigitsToNat(Tail(s), acc * 10 + DigitValue(Head(s)))

NaN == [nan |-> TRUE]
Num(n) == [nan |-> FALSE, n |-> n]

\* parseInt(string): leading blanks, an optional sign, then the longest run of
\* decimal digits; NaN when there is no digit.
ParseInt(s) ==
    LET t == DropSpaces(s)
        neg == t # <<>> /\ Head(t) = "-"
        body == IF t # <<>> /\ Head(t) \in {"-", "+"} THEN Tail(t) ELSE t
        ds == DigitPrefix(body)
    IN  IF ds = <<>> THEN NaN
        ELSE Num(IF neg THEN 0 - DigitsToNat(ds, 0) ELSE DigitsToNat(ds, 0))

\* x || d for a number x: NaN and 0 are falsy.
OrDefault(x, d) == IF x.nan \/ x.n = 0 THEN d ELSE x.n

(***************************************************************************)
(* Queries of the product store: select(...) and populate('category').     *)
(***************************************************************************)
NullCategory == [isNull |-> TRUE]

\* populate('category', 'name'): the referenced category's _id and name, or
\* null when the reference is null or names no category.
Populate(ref, cs) ==
    IF ref \in CategoryIds(cs)
    THEN CHOOSE c \in cs : c._id = ref
    ELSE NullCategory

\* .select('name stock variants category price').populate('category', 'name')
LowStockView(p, cs) ==
    [_id |-> p._id, name |-> p.name, stock |-> p.stock, variants |-> p.variants,
     category |-> Populate(p.category, cs), price |-> p.price]

MapSeq(s, F(_)) == [i \in DOMAIN s |-> F(s[i])]

\* Product.find({stock: {$lt: threshold}})
FindLowMainStock(ps, t) == SelectSeq(ps, LAMBDA p : p.stock < t)

\* Product.find({variants: {$elemMatch: {stock: {$lt: threshold}}}})
FindLowVariantStock(ps, t) ==
    SelectSeq(ps, LAMBDA p : \E i \in DOMAIN p.variants : p.variants[i].stock < t)

\* One turn of lowVariantStockItems.forEach: push unless the id is present.
PushAlways(combined, p) == Append(combined, p)

\* A merge that skips a document only when an equal document is present.
PushIfDifferent(combined, p) ==
    IF \E i \in DOMAIN combined : combined[i] = p
    THEN combined ELSE Append(combined, p)

PushIfAbsent(combined, p) ==
    IF \E i \in DOMAIN combined : combined[i]._id = p._id
    THEN combined ELSE Append(combined, p)

\* A merge that drops the second result.
CombineFirstOnly(combined, more) == combined

RECURSIVE Combine(_, _)
Combine(combined, more) ==
    IF more = <<>> THEN combined
    ELSE Combine(PushIfAbsent(combined, Head(more)), Tail(more))

DefaultThreshold == 10

\* parseInt(req.params.threshold) || 10
LowStockThreshold(params) ==
    OrDefault(IF Has(params, "threshold") THEN ParseInt(params.threshold) ELSE NaN,
              DefaultThreshold)

\* GET /api/inventory/low-stock/:threshold?
LowStockResult(ps, cs, params) ==
    LET threshold == LowStockThreshold(params)
        view(p) == LowStockView(p, cs)
        lowStockItems == MapSeq(FindLowMainStock(ps, threshold), view)
        lowVariantStockItems == MapSeq(FindLowVariantStock(ps, threshold), view)
    IN  [status |-> 200, items |-> Combine(lowStockItems, lowVariantStockItems)]

(***************************************************************************)
(* Faceted search, GET /api/search.  Query parameters are strings; those   *)
(* the handler converts or matches by character are character sequences.   *)
(***************************************************************************)
\* The spelling of the names and descriptions the stores use.
Spelling ==
    ("Mug" :> <<"M", "u", "g">>)
    @@ ("shirt" :> <<"s", "h", "i", "r", "t">>)
    @@ ("a big mug" :> <<"a", " ", "b", "i", "g", " ", "m", "u", "g">>)
    @@ ("cotton" :> <<"c", "o", "t", "t", "o", "n">>)

UpperChars == <<"M", "U", "G">>
LowerChars == <<"m", "u", "g">>

ToLower(c) ==
    IF \E k \in DOMAIN UpperChars : UpperChars[k] = c
    THEN LowerChars[CHOOSE k \in DOMAIN UpperChars : UpperChars[k] = c]
    ELSE c

LowerAll(s) == [i \in DOMAIN s |-> ToLower(s[i])]

\* {$regex: keyword, $options: 'i'} for a keyword without metacharacters: the
\* keyword occurs in the text, letter case ignored.
RegexMatchI(text, keyword) ==
    LET t == LowerAll(Spelling[text])
        k == LowerAll(keyword)
    IN  \E i \in 1..(Len(t) - Len(k) + 1) : SubSeq(t, i, i + Len(k) - 1) = k

\* Number(s) of a string of decimal digits (the empty string gives 0).
NumberOf(s) == DigitsToNat(s, 0)

Param(q, f) == IF Has(q, f) THEN q[f] ELSE Undefined

\* The variant filter: each dotted path ('variants.size', 'variants.color',
\* 'variants.stock') is matched against the variant array on its own, so each
\* needs some element that satisfies it.
VariantFilter(p, q) ==
    /\ (Has(q, "size") /\ TruthyStr(q.size))
          => \E i \in DOMAIN p.variants : p.variants[i].size = q.size
    /\ (Has(q, "color") /\ TruthyStr(q.color))
          => \E i \in DOMAIN p.variants : p.variants[i].color = q.color
    /\ Param(q, "inStock") = "true"
          => \E i \in DOMAIN p.variants : p.variants[i].stock > 0

\* The query object the handler builds, as a predicate on a product.
SearchMatches(p, q) ==
    /\ (Has(q, "keyword") /\ q.keyword # <<>>)
          => (RegexMatchI(p.name, q.keyword) \/ RegexMatchI(p.description, q.keyword))
    /\ (Has(q, "category") /\ TruthyStr(q.category)) => p.category = q.category
    /\ Has(q, "minPrice") => p.price >= NumberOf(q.minPrice)
    /\ Has(q, "maxPrice") => p.price <= NumberOf(q.maxPrice)
    /\ Param(q, "inStock") = "true" => p.stock > 0
    /\ Param(q, "inStock") = "false" => p.stock = 0
    /\ ((Has(q, "size") /\ TruthyStr(q.size)) \/ (Has(q, "color") /\ TruthyStr(q.color)))
          => VariantFilter(p, q)

CharCodes ==
    ("M" :> 77) @@ ("a" :> 97) @@ ("g" :> 103) @@ ("h" :> 104) @@ ("i" :> 105)
    @@ ("r" :> 114) @@ ("s" :> 115) @@ ("t" :> 116) @@ ("u" :> 117)

\* Binary string order, as the store sorts strings.
RECURSIVE StrLess(_, _)
StrLess(a, b) ==
    IF b = <<>> THEN FALSE
    ELSE IF a = <<>> THEN TRUE
    ELSE IF Head(a) # Head(b) THEN CharCodes[Head(a)] < CharCodes[Head(b)]
    ELSE StrLess(Tail(a), Tail(b))

\* switch (sortBy): TRUE when a sorts strictly before b.
SortsBefore(a, b, sortBy) ==
    CASE sortBy = "priceAsc" -> a.price < b.price
      [] sortBy = "priceDesc" -> a.price > b.price
      [] sortBy = "nameAsc" -> StrLess(Spelling[a.name], Spelling[b.name])
      [] OTHER -> a.createdAt > b.createdAt

\* .sort(sort): documents with equal keys keep their natural order.
RECURSIVE InsertSorted(_, _, _)
InsertSorted(sorted, p, sortBy) ==
    IF sorted = <<>> THEN <<p>>
    ELSE IF SortsBefore(p, Head(sorted), sortBy) THEN <<p>> \o sorted
    ELSE <<Head(sorted)>> \o InsertSorted(Tail(sorted), p, sortBy)

RECURSIVE SortBy(_, _)
SortBy(ps, sortBy) ==
    IF ps = <<>> THEN <<>>
    ELSE InsertSorted(SortBy(SubSeq(ps, 1, Len(ps) - 1), sortBy), ps[Len(ps)], sortBy)

DefaultPage == 1
DefaultLimit == 10

\* Math.ceil(a / b) for b > 0.
CeilDiv(a, b) == (a + b - 1) \div b

\* .populate('category', 'name') on a whole document.
WithCategory(p, cs) == [p EXCEPT !.category = Populate(p.category, cs)]

SearchResult(ps, cs, q) ==
    LET found == SelectSeq(ps, LAMBDA p : SearchMatches(p, q))
        pageNum == IF Has(q, "page") THEN NumberOf(q.page) ELSE DefaultPage
        limitNum == IF Has(q, "limit") THEN NumberOf(q.limit) ELSE DefaultLimit
        skip == (pageNum - 1) * limitNum
        sorted == SortBy(found, Param(q, "sortBy"))
        slice == SubSeq(sorted, skip + 1,
                        IF skip + limitNum < Len(sorted) THEN skip + limitNum ELSE Len(sorted))
        total == Len(found)
        totalPages == CeilDiv(total, limitNum)
    IN  [status |-> 200,
         products |-> MapSeq(slice, LAMBDA p : WithCategory(p, cs)),
         page |-> pageNum, pages |-> totalPages, total |-> total,
         hasMore |-> pageNum < totalPages]

(***************************************************************************)
(* Reports.  A number the handler formats with toFixed(2) is reported in   *)
(* hundredths: 5000 stands for 50.00.                                      *)
(***************************************************************************)
\* parseFloat((num / den).toFixed(2)), in hundredths, the nearest one.
ToFixed2(num, den) == (200 * num + den) \div (2 * den)

RECURSIVE VariantStockSum(_)
VariantStockSum(vs) ==
    IF vs = <<>> THEN 0 ELSE Head(vs).stock + VariantStockSum(Tail(vs))

RECURSIVE VariantsValue(_, _)
VariantsValue(price, vs) ==
    IF vs = <<>> THEN 0 ELSE price * Head(vs).stock + VariantsValue(price, Tail(vs))

ItemValueMainOnly(p) == p.price * p.stock

\* mainStockValue + variantsStockValue of one product.
ItemValue(p) == p.price * p.stock + VariantsValue(p.price, p.variants)

Uncategorized == "Uncategorized"

CategoryNameOf(p, cs) ==
    LET c == Populate(p.category, cs)
    IN  IF Has(c, "isNull") THEN Uncategorized ELSE c.name

\* categoryValues[categoryName] += itemValue, the entries kept in the order
\* their keys were first set.
AddToCategory(entries, name, value) ==
    IF \E i \in DOMAIN entries : entries[i].category = name
    THEN [i \in DOMAIN entries |->
            IF entries[i].category = name
            THEN [entries[i] EXCEPT !.value = @ + value] ELSE entries[i]]
    ELSE Append(entries, [category |-> name, value |-> value])

RECURSIVE ValueLoop(_, _, _)
ValueLoop(acc, ps, cs) ==
    IF ps = <<>> THEN acc
    ELSE ValueLoop(
            [totalValue |-> acc.totalValue + ItemValue(Head(ps)),
             categoryValues |-> AddToCategory(acc.categoryValues,
                                    CategoryNameOf(Head(ps), cs), ItemValue(Head(ps)))],
            Tail(ps), cs)

\* GET /api/reports/inventory-value
InventoryValueResult(ps, cs) ==
    LET done == ValueLoop([totalValue |-> 0, categoryValues |-> <<>>], ps, cs)
    IN  [status |-> 200,
         totalValue |-> ToFixed2(done.totalValue, 1),
         categories |-> [i \in DOMAIN done.categoryValues |->
                            [category |-> done.categoryValues[i].category,
                             value |-> ToFixed2(done.categoryValues[i].value, 1)]],
         productCount |-> Len(ps)]

LowStockLimit == 5
MediumStockLimit == 20
ExampleCap == 5

StockLevels == <<"Out of Stock", "Low Stock", "Medium Stock", "High Stock">>

StockLevelOfStrict(stock) ==
    IF stock = 0 THEN "Out of Stock"
    ELSE IF stock < LowStockLimit THEN "Low Stock"
    ELSE IF stock < MediumStockLimit THEN "Medium Stock"
    ELSE "High Stock"

StockLevelOf(stock) ==
    IF stock = 0 THEN "Out of Stock"
    ELSE IF stock <= LowStockLimit THEN "Low Stock"
    ELSE IF stock <= MediumStockLimit THEN "Medium Stock"
    ELSE "High Stock"

Infinity == [inf |-> TRUE]
Finite(n) == [inf |-> FALSE, n |-> n]

\* if (x > maxStock) maxStock = x; if (x < minStock) minStock = x
TrackStock(acc, x) ==
    [acc EXCEPT !.totalStockItems = @ + x,
                !.maxStock = IF x > @ THEN x ELSE @,
                !.minStock = IF @.inf \/ x < @.n THEN Finite(x) ELSE @]

\* The statistics taken over the main stocks alone.
TrackVariantsNone(acc, vs) == acc

RECURSIVE TrackVariants(_, _)
TrackVariants(acc, vs) ==
    IF vs = <<>> THEN acc ELSE TrackVariants(TrackStock(acc, Head(vs).stock), Tail(vs))

\* One turn of products.forEach in the stock-level report.
StockLevelStep(acc, p) ==
    LET a1 == TrackStock(acc, p.stock)
        level == StockLevelOf(p.stock)
        a2 == [a1 EXCEPT !.levels[level].count = @ + 1,
                         !.levels[level].products =
                             Append(@, [id |-> p._id, name |-> p.name, stock |-> p.stock])]
    IN  TrackVariants(a2, p.variants)

RECURSIVE StockLevelLoop(_, _)
StockLevelLoop(acc, ps) ==
    IF ps = <<>> THEN acc ELSE StockLevelLoop(StockLevelStep(acc, Head(ps)), Tail(ps))

FirstN(s, n) == SubSeq(s, 1, IF Len(s) < n THEN Len(s) ELSE n)

\* GET /api/reports/stock-levels
StockLevelsResult(ps) ==
    LET start == [levels |-> [l \in {StockLevels[k] : k \in DOMAIN StockLevels} |->
                                [count |-> 0, products |-> <<>>]],
                  totalStockItems |-> 0, maxStock |-> 0, minStock |-> Infinity]
        done == StockLevelLoop(start, ps)
        divisor == IF Len(ps) = 0 THEN 1 ELSE Len(ps)
    IN  [status |-> 200,
         stockLevels |-> [k \in DOMAIN StockLevels |->
                            [level |-> StockLevels[k],
                             count |-> done.levels[StockLevels[k]].count,
                             products |-> FirstN(done.levels[StockLevels[k]].products,
                                                 ExampleCap)]],
         stats |-> [totalProducts |-> Len(ps),
                    totalStockItems |-> done.totalStockItems,
                    avgStockPerProduct |-> ToFixed2(done.totalStockItems, divisor),
                    maxStock |-> done.maxStock,
                    minStock |-> IF done.minStock.inf THEN 0 ELSE done.minStock.n]]

(***************************************************************************)
(* Low-stock alert report, GET /api/reports/low-stock.                     *)
(***************************************************************************)
DefaultAlertThreshold == 5

\* parseInt(req.query.threshold) || 5
AlertThreshold(query) ==
    OrDefault(IF Has(query, "threshold") THEN ParseInt(query.threshold) ELSE NaN,
              DefaultAlertThreshold)

\* product.image, a path no stored product of the model sets.
ImageOf(p) == IF Has(p, "image") THEN p.image ELSE Undefined

\* .select('name stock variants category price image').populate('category', 'name')
AlertView(p, cs) ==
    [_id |-> p._id, name |-> p.name, stock |-> p.stock, variants |-> p.variants,
     category |-> Populate(p.category, cs), price |-> p.price, image |-> ImageOf(p)]

\* Product.find({stock: {$lte: threshold, $gt: 0}})
FindAlertMainStock(ps, t) == SelectSeq(ps, LAMBDA p : p.stock <= t /\ p.stock > 0)

\* Product.find({'variants.stock': {$lte: threshold, $gt: 0}}): on a dotted
\* path into an array the store tests each operator against the array's
\* elements separately, so one variant may satisfy $lte and another $gt.
FindAlertVariantStock(ps, t) ==
    SelectSeq(ps, LAMBDA p :
        /\ \E i \in DOMAIN p.variants : p.variants[i].stock <= t
        /\ \E i \in DOMAIN p.variants : p.variants[i].stock > 0)

\* product.variants.filter(v => v.stock <= threshold && v.stock > 0), mapped to
\* {size, color, stock}
LowVariantsOf(vs, t) ==
    LET low == SelectSeq(vs, LAMBDA v : v.stock <= t /\ v.stock > 0)
    IN  [i \in DOMAIN low |->
            [size |-> low[i].size, color |-> low[i].color, stock |-> low[i].stock]]

\* The callback of lowStockProducts.map
ProcessProduct(p, t) ==
    [_id |-> p._id, name |-> p.name,
     mainStock |-> [quantity |-> p.stock, isLow |-> (p.stock <= t /\ p.stock > 0)],
     lowVariants |-> LowVariantsOf(p.variants, t),
     category |-> p.category, price |-> p.price, image |-> p.image]

\* Math.min(...lowVariants.map(v => v.stock)), or Infinity for an empty list
LowestVariant(a) ==
    IF Len(a.lowVariants) = 0 THEN Infinity
    ELSE Finite(CHOOSE m \in {a.lowVariants[i].stock : i \in DOMAIN a.lowVariants} :
                    \A i \in DOMAIN a.lowVariants : m <= a.lowVariants[i].stock)

\* x - y on numbers that may be Infinity, as the sort reads it: -1, 0 or 1 for
\* a negative, zero or positive difference.  Infinity - Infinity is NaN,
\* which Array.prototype.sort takes for +0.
Sign(n) == IF n < 0 THEN -1 ELSE IF n > 0 THEN 1 ELSE 0

MinusSign(x, y) ==
    IF x.inf /\ y.inf THEN 0
    ELSE IF x.inf THEN 1
    ELSE IF y.inf THEN -1
    ELSE Sign(x.n - y.n)

\* A comparator that looks at the main-stock quantity alone.
AlertCompareQuantityOnly(a, b) == Sign(a.mainStock.quantity - b.mainStock.quantity)

\* The comparator handed to processedProducts.sort
AlertCompare(a, b) ==
    IF a.mainStock.isLow /\ b.mainStock.isLow
    THEN Sign(a.mainStock.quantity - b.mainStock.quantity)
    ELSE IF a.mainStock.isLow THEN -1
    ELSE IF b.mainStock.isLow THEN 1
    ELSE MinusSign(LowestVariant(a), LowestVariant(b))

\* Array.prototype.sort is stable: an element goes in front of the first
\* element it compares below, and behind the elements it compares equal to.
AlertInsert(sorted, a) ==
    LET later == {i \in DOMAIN sorted : AlertCompare(a, sorted[i]) < 0}
        k == IF later = {} THEN Len(sorted) + 1
             ELSE CHOOSE i \in later : \A j \in later : i <= j
    IN  SubSeq(sorted, 1, k - 1) \o <<a>> \o SubSeq(sorted, k, Len(sorted))

RECURSIVE AlertSort(_, _)
AlertSort(sorted, rest) ==
    IF rest = <<>> THEN sorted
    ELSE AlertSort(AlertInsert(sorted, Head(rest)), Tail(rest))

\* The first find() of the report, as the handler receives it.
AlertMainRead(ps, cs, t) ==
    [i \in DOMAIN FindAlertMainStock(ps, t) |-> AlertView(FindAlertMainStock(ps, t)[i], cs)]

\* The second find() of the report.
AlertVariantRead(ps, cs, t) ==
    [i \in DOMAIN FindAlertVariantStock(ps, t) |->
        AlertView(FindAlertVariantStock(ps, t)[i], cs)]

\* What the handler does with the two results: merge, process, sort, answer.
AlertAnswer(mainStockProducts, variantStockProducts, threshold) ==
    LET lowStockProducts == Combine(mainStockProducts, variantStockProducts)
        processedProducts ==
            [i \in DOMAIN lowStockProducts |-> ProcessProduct(lowStockProducts[i], threshold)]
        sortedProducts == AlertSort(<<>>, processedProducts)
    IN  [status |-> 200, products |-> sortedProducts,
         count |-> Len(sortedProducts), threshold |-> threshold]

\* GET /api/reports/low-stock
LowStockAlertResult(ps, cs, query) ==
    LET threshold == AlertThreshold(query)
    IN  AlertAnswer(AlertMainRead(ps, cs, threshold),
                    AlertVariantRead(ps, cs, threshold), threshold)

(***************************************************************************)
(* Request inputs.                                                         *)
(***************************************************************************)
Sizes == {"S", "M"}
Colors == {"red", "blue"}
StockInputs == {0, 7}
LocationInputs == {"", "B2"}
StatusInputs == {"", "reserved"}
ProductIdInputs == {"p1", "p2"}
MissingProductId == "p9"
CategoryIdInputs == {"c1", "c2", "c9"}

Variant(size, color, stock) == [size |-> size, color |-> color, stock |-> stock]

\* Variant deltas: one matching a variant of p1, and a new key with two stocks.
Deltas == {Variant("S", "red", 4), Variant("S", "blue", 1), Variant("S", "blue", 0)}

VariantLists == SeqsUpTo(Deltas, MaxDeltas)

\* Bodies that set the main fields and carry no `variants`.
MainBodies ==
    {s @@ l @@ t :
        s \in OptField("stock", StockInputs),
        l \in OptField("location", LocationInputs),
        t \in OptField("status", StatusInputs)}

\* Bodies that carry `variants`: a list, or a value that is not a list, alone;
\* or a one-element list together with a main stock of 0.
VariantBodies ==
    {"variants" :> v : v \in {JsString("all")} \cup {JsArray(ds) : ds \in VariantLists}}
    \cup {("stock" :> 0) @@ ("variants" :> JsArray(<<d>>)) : d \in Deltas}

UpdateBodies == MainBodies \cup VariantBodies

UpdateRequests ==
    {[op |-> "update", id |-> id, body |-> b] : id \in ProductIdInputs, b \in UpdateBodies}
    \cup {[op |-> "update", id |-> MissingProductId, body |-> b] :
            b \in {NoFields, "stock" :> 0, "variants" :> JsArray(<<Variant("S", "red", 4)>>)}}

BulkItems ==
    {("productId" :> "p1") @@ ("stock" :> 0),
     ("productId" :> MissingProductId) @@ ("stock" :> 0),
     ("productId" :> "p2") @@ ("stock" :> 7)
        @@ ("variants" :> JsArray(<<Variant("S", "blue", 1)>>)),
     ("productId" :> "p1") @@ ("location" :> "")
        @@ ("variants" :> JsArray(<<Variant("S", "red", 4)>>))}

BulkBodies ==
    {NoFields, "updates" :> JsString("p1")}
    \cup {"updates" :> JsArray(items) : items \in SeqsUpTo(BulkItems, MaxBatch)}

(***************************************************************************)
(* The server handling inventory and category requests one at a time.      *)
(***************************************************************************)
InitProducts ==
    << [_id |-> "p1", name |-> "shirt", description |-> "cotton", createdAt |-> 1,
        price |-> 10, stock |-> 3,
        inventoryLocation |-> "A1", inventoryStatus |-> "in_stock",
        category |-> "c1",
        variants |-> <<[size |-> "S", color |-> "red", stock |-> 3],
                       [size |-> "M", color |-> "blue", stock |-> 0]>>],
       [_id |-> "p2", name |-> "Mug", description |-> "a big mug", createdAt |-> 2,
        price |-> 4, stock |-> 5,
        inventoryLocation |-> Undefined, inventoryStatus |-> Undefined,
        category |-> "c2", variants |-> <<>>] >>

InitCategories == {[_id |-> "c1", name |-> "clothes"], [_id |-> "c2", name |-> "kitchen"]}

NoRequest == [op |-> "none"]

\* No handler is suspended at an await.
Idle == [at |-> "idle"]

Snapshot == [products |-> products, categories |-> categories]

Init ==
    /\ products = InitProducts
    /\ categories = InitCategories
    /\ req = NoRequest
    /\ res = [status |-> 0]
    /\ pre = [products |-> InitProducts, categories |-> InitCategories]
    /\ nops = 0
    /\ users = <<>>
    /\ pc = Idle

UpdateInventory ==
    /\ nops < MaxOps
    /\ \E r \in UpdateRequests :
         LET out == UpdateInventoryResult(products, r.id, r.body)
         IN  /\ req' = r
             /\ products' = out.products
             /\ res' = out.res
    /\ pre' = Snapshot
    /\ nops' = nops + 1
    /\ UNCHANGED <<categories, users, pc>>

BulkUpdateInventory ==
    /\ nops < MaxOps
    /\ \E body \in BulkBodies :
         LET out == BulkUpdateResult(products, body)
         IN  /\ req' = [op |-> "bulk", body |-> body]
             /\ products' = out.products
             /\ res' = out.res
    /\ pre' = Snapshot
    /\ nops' = nops + 1
    /\ UNCHANGED <<categories, users, pc>>

DeleteCategory ==
    /\ nops < MaxOps
    /\ \E id \in CategoryIdInputs :
         LET out == DeleteCategoryResult(products, categories, id)
         IN  /\ req' = [op |-> "deleteCategory", id |-> id]
             /\ products' = out.products
             /\ categories' = out.categories
             /\ res' = out.res
    /\ pre' = Snapshot
    /\ nops' = nops + 1
    /\ UNCHANGED <<users, pc>>

Next == UpdateInventory \/ BulkUpdateInventory \/ DeleteCategory

Spec == Init /\ [][Next]_vars

(***************************************************************************)
(* Properties of the inventory reconciler and of category deletion.        *)
(***************************************************************************)
IsUpdateOk == req.op = "update" /\ res.status = 200
IsBulkOk == req.op = "bulk" /\ res.status = 200
BulkItemsOf(r) == r.body.updates.items

\* The store a batch must leave behind: every item whose product exists is
\* applied, in input order, and the other items are passed over.
RECURSIVE ExpectedAfterBatch(_, _)
ExpectedAfterBatch(ps, items) ==
    IF items = <<>> THEN ps
    ELSE LET it == Head(items)
         IN  ExpectedAfterBatch(
                 IF Exists(ps, it.productId)
                 THEN Save(ps, ApplyInventoryUpdate(FindById(ps, it.productId), it))
                 ELSE ps,
                 Tail(items))

\* C1: a bulk update whose `updates` is a list answers one result per item, in
\* input order, with success = TRUE exactly for the items whose product exists;
\* the update of every such item is persisted whatever the other items did.
C1_BulkPerItemResults ==
    (req.op = "bulk" /\ Has(req.body, "updates") /\ IsArray(req.body.updates)) =>
        LET items == BulkItemsOf(req)
        IN  /\ res.status = 200
            /\ Len(res.results) = Len(items)
            /\ \A i \in DOMAIN items :
                  /\ res.results[i].productId = items[i].productId
                  /\ res.results[i].success = Exists(pre.products, items[i].productId)
                  /\ ~res.results[i].success =>
                        /\ Has(res.results[i], "message")
                        /\ res.results[i].message = "Product not found"
            /\ products = ExpectedAfterBatch(pre.products, items)
            /\ \A i \in DOMAIN items :
                  (/\ Exists(pre.products, items[i].productId)
                   /\ Has(items[i], "stock")
                   /\ \A j \in DOMAIN items :
                         (j > i /\ items[j].productId = items[i].productId)
                            => ~Has(items[j], "stock"))
                  => FindById(products, items[i].productId).stock = items[i].stock

\* C1 witness: a batch <<missing, existing>> or <<existing, missing>> whose
\* existing item changed the stored stock.
C1_Witness ==
    /\ IsBulkOk
    /\ Len(BulkItemsOf(req)) = 2
    /\ \E i, j \in 1..2 :
          /\ i # j
          /\ ~res.results[i].success
          /\ res.results[j].success
          /\ Has(BulkItemsOf(req)[j], "stock")
          /\ FindById(pre.products, BulkItemsOf(req)[j].productId).stock
                # BulkItemsOf(req)[j].stock
          /\ FindById(products, BulkItemsOf(req)[j].productId).stock
                = BulkItemsOf(req)[j].stock

\* C2: an update of an existing product that supplies a stock, 0 included,
\* leaves exactly that value stored (single update; the last batch item that
\* supplies a stock for the product).
C2_StockApplied ==
    /\ (IsUpdateOk /\ Has(req.body, "stock"))
          => FindById(products, req.id).stock = req.body.stock
    /\ IsBulkOk =>
          \A i \in DOMAIN BulkItemsOf(req) :
              LET it == BulkItemsOf(req)[i]
              IN  (/\ Exists(pre.products, it.productId)
                   /\ Has(it, "stock")
                   /\ \A j \in DOMAIN BulkItemsOf(req) :
                         (j > i /\ BulkItemsOf(req)[j].productId = it.productId)
                            => ~Has(BulkItemsOf(req)[j], "stock"))
                  => FindById(products, it.productId).stock = it.stock

\* C2 witness: a single update with stock = 0 took a positive stock to 0.
C2_Witness ==
    /\ IsUpdateOk
    /\ Has(req.body, "stock")
    /\ req.body.stock = 0
    /\ FindById(pre.products, req.id).stock > 0
    /\ FindById(products, req.id).stock = 0

KeyOf(v) == <<v.size, v.color>>

Keys(vs) == {KeyOf(vs[i]) : i \in DOMAIN vs}

\* The update carries only a variant list, each delta of which names a
\* (size, color) pair the product already had.
OnlyMatchingDeltas ==
    /\ IsUpdateOk
    /\ DOMAIN req.body = {"variants"}
    /\ IsArray(req.body.variants)
    /\ req.body.variants.items # <<>>
    /\ \A k \in DOMAIN req.body.variants.items :
          KeyOf(req.body.variants.items[k]) \in Keys(FindById(pre.products, req.id).variants)

\* C3: such an update changes nothing but the stock of the matched variants.
C3_OnlyMatchedVariantStockChanges ==
    OnlyMatchingDeltas =>
        LET old == FindById(pre.products, req.id)
            new == FindById(products, req.id)
            named == Keys(req.body.variants.items)
        IN  /\ Len(new.variants) = Len(old.variants)
            /\ \A i \in DOMAIN old.variants :
                  /\ KeyOf(new.variants[i]) = KeyOf(old.variants[i])
                  /\ KeyOf(old.variants[i]) \notin named
                        => new.variants[i].stock = old.variants[i].stock
            /\ new.stock = old.stock
            /\ new.inventoryLocation = old.inventoryLocation
            /\ new.inventoryStatus = old.inventoryStatus
            /\ new.price = old.price
            /\ new.name = old.name
            /\ new.category = old.category

\* C3 witness: a matched variant's stock changed while the product keeps a
\* variant the update did not name.
C3_Witness ==
    /\ OnlyMatchingDeltas
    /\ LET old == FindById(pre.products, req.id)
           new == FindById(products, req.id)
       IN  /\ \E i \in DOMAIN old.variants : new.variants[i].stock # old.variants[i].stock
           /\ \E i \in DOMAIN old.variants :
                 KeyOf(old.variants[i]) \notin Keys(req.body.variants.items)

DistinctKeys(vs) ==
    \A i, j \in DOMAIN vs : KeyOf(vs[i]) = KeyOf(vs[j]) => i = j

\* C4: the (size, color) keys of every product's variants stay pairwise
\* distinct under any sequence of single and bulk updates.
C4_VariantKeysUnique ==
    \A i \in DOMAIN products : DistinctKeys(products[i].variants)

\* C4 witness: a variant list naming one new key twice was applied and the key
\* was appended.
C4_Witness ==
    /\ IsUpdateOk
    /\ Has(req.body, "variants")
    /\ IsArray(req.body.variants)
    /\ Len(req.body.variants.items) >= 2
    /\ \E a, b \in DOMAIN req.body.variants.items :
          /\ a # b
          /\ KeyOf(req.body.variants.items[a]) = KeyOf(req.body.variants.items[b])
          /\ KeyOf(req.body.variants.items[a])
                \notin Keys(FindById(pre.products, req.id).variants)
          /\ KeyOf(req.body.variants.items[a])
                \in Keys(FindById(products, req.id).variants)

\* C6: deleting an existing category removes it, nulls the reference of every
\* product that referenced it and changes nothing else of any product; deleting
\* a category that does not exist answers 404 and changes nothing.
C6_DeleteCategoryDetaches ==
    req.op = "deleteCategory" =>
        IF req.id \in CategoryIds(pre.categories)
        THEN /\ res.status = 200
             /\ req.id \notin CategoryIds(categories)
             /\ categories = {c \in pre.categories : c._id # req.id}
             /\ Len(products) = Len(pre.products)
             /\ \A i \in DOMAIN pre.products :
                   /\ products[i]._id = pre.products[i]._id
                   /\ pre.products[i].category = req.id => products[i].category = Null
                   /\ pre.products[i].category # req.id => products[i] = pre.products[i]
                   /\ [products[i] EXCEPT !.category = Null]
                        = [pre.products[i] EXCEPT !.category = Null]
        ELSE /\ res.status = 404
             /\ products = pre.products
             /\ categories = pre.categories

\* C6 witness: a deleted category was referenced by one product while another
\* product references a category that still exists.
C6_Witness ==
    /\ req.op = "deleteCategory"
    /\ res.status = 200
    /\ \E i \in DOMAIN pre.products : pre.products[i].category = req.id
    /\ \E i \in DOMAIN products : products[i].category \in CategoryIds(categories)

(***************************************************************************)
(* The low-stock query over a bounded set of stores.                       *)
(***************************************************************************)
ProductIdAt == <<"p1", "p2", "p3", "p4">>

\* Every store of at most n products drawn from Samples, ids by position.
StoresOf(Samples, n) ==
    UNION {{[i \in 1..k |-> [f[i] EXCEPT !._id = ProductIdAt[i]]] :
                f \in [1..k -> Samples]} : k \in 0..n}

LowStockSamples ==
    [_id : {"p1"}, name : {"shirt"}, description : {"cotton"}, createdAt : {1},
     price : {10}, stock : {0, 3, 10, 12},
     inventoryLocation : {Undefined}, inventoryStatus : {Undefined},
     category : {"c1", Null},
     variants : {<<>>, <<Variant("S", "red", 2)>>, <<Variant("S", "red", 10)>>,
                 <<Variant("S", "red", 12), Variant("M", "blue", 9)>>}]

ThresholdInputs ==
    {<<"0">>, <<"1">>, <<"3">>, <<"5">>, <<"1", "0">>, <<"1", "1">>, <<"1", "3">>,
     <<"a", "b", "c">>, <<"5", "x">>, <<>>}

LowStockParams == OptField("threshold", ThresholdInputs)

InitLowStock ==
    /\ products \in StoresOf(LowStockSamples, MaxProducts)
    /\ categories = InitCategories
    /\ req = NoRequest
    /\ res = [status |-> 0]
    /\ pre = [products |-> products, categories |-> categories]
    /\ nops = 0
    /\ users = <<>>
    /\ pc = Idle

GetLowStockItems ==
    /\ \E params \in LowStockParams :
         /\ req' = [op |-> "lowStock", params |-> params]
         /\ res' = LowStockResult(products, categories, params)
    /\ pre' = Snapshot
    /\ UNCHANGED <<products, categories, users, nops, pc>>

NextLowStock == GetLowStockItems

SpecLowStock == InitLowStock /\ [][NextLowStock]_vars

ItemIds(items) == {items[i]._id : i \in DOMAIN items}

LowMainIds(ps, t) == {ps[i]._id : i \in {k \in DOMAIN ps : ps[k].stock < t}}

LowVariantIds(ps, t) ==
    {ps[i]._id : i \in {k \in DOMAIN ps :
                            \E v \in DOMAIN ps[k].variants : ps[k].variants[v].stock < t}}

\* C5: the low-stock result is the main-stock matches in fetched order followed
\* by the variant matches that are not main-stock matches, in fetched order; its
\* ids are the union of the two match sets and none occurs twice.
C5_LowStockMergeDedup ==
    req.op = "lowStock" =>
        LET t == LowStockThreshold(req.params)
            main == SelectSeq(products, LAMBDA p : p._id \in LowMainIds(products, t))
            rest == SelectSeq(products,
                        LAMBDA p : /\ p._id \in LowVariantIds(products, t)
                                   /\ p._id \notin LowMainIds(products, t))
        IN  /\ [i \in DOMAIN res.items |-> res.items[i]._id]
                  = [i \in DOMAIN (main \o rest) |-> (main \o rest)[i]._id]
            /\ ItemIds(res.items) = LowMainIds(products, t) \cup LowVariantIds(products, t)
            /\ \A i, j \in DOMAIN res.items :
                  res.items[i]._id = res.items[j]._id => i = j

\* C5 witness: threshold 5, a product with main stock 3 and a variant with
\* stock 2 is returned once, after it a product matched by a variant only.
C5_Witness ==
    /\ req.op = "lowStock"
    /\ LowStockThreshold(req.params) = 5
    /\ Len(res.items) = 2
    /\ res.items[1].stock = 3
    /\ \E v \in DOMAIN res.items[1].variants : res.items[1].variants[v].stock = 2
    /\ res.items[2].stock >= 5

IsDigits(s) == s # <<>> /\ \A i \in DOMAIN s : IsDigit(s[i])

\* C10: a threshold that is an integer t >= 0 selects exactly the products
\* with main stock < t or with a variant whose stock < t.
C10_ThresholdExact ==
    (req.op = "lowStock" /\ Has(req.params, "threshold") /\ IsDigits(req.params.threshold)) =>
        LET t == DigitsToNat(req.params.threshold, 0)
        IN  ItemIds(res.items) = LowMainIds(products, t) \cup LowVariantIds(products, t)

(***************************************************************************)
(* Faceted search over a bounded set of stores: a request is pending in    *)
(* the initial state and the handler answers it.                           *)
(***************************************************************************)
SearchVariantLists ==
    {<<>>,
     <<Variant("S", "red", 2)>>,
     <<Variant("S", "red", 0), Variant("M", "blue", 2)>>,
     <<Variant("S", "blue", 2), Variant("M", "red", 0)>>,
     <<Variant("S", "red", 0)>>}

SearchSamples ==
    [_id : {"p1"}, name : {"Mug"}, description : {"a big mug"}, price : {4},
     stock : {0, 2}, inventoryLocation : {Undefined}, inventoryStatus : {Undefined},
     category : {"c2"}, createdAt : {1}, variants : SearchVariantLists]
    \cup
    [_id : {"p1"}, name : {"shirt"}, description : {"cotton"}, price : {10},
     stock : {0, 2}, inventoryLocation : {Undefined}, inventoryStatus : {Undefined},
     category : {"c1", Null}, createdAt : {2}, variants : SearchVariantLists]

VariantQueries ==
    {s @@ c @@ k :
        s \in OptField("size", Sizes),
        c \in OptField("color", Colors),
        k \in OptField("inStock", {"true", "false"})}

FilterQueries ==
    {k @@ c @@ lo @@ hi :
        k \in OptField("keyword", {<<"M", "U">>, <<"t", "t">>, <<>>}),
        c \in OptField("category", {"c1"}),
        lo \in OptField("minPrice", {<<"5">>}),
        hi \in OptField("maxPrice", {<<"5">>})}

PageQueries ==
    {s @@ pg @@ l :
        s \in OptField("sortBy", {"priceAsc", "priceDesc", "newest", "nameAsc"}),
        pg \in OptField("page", {<<"1">>, <<"2">>}),
        l \in OptField("limit", {<<"1">>})}

SearchQueries == VariantQueries \cup FilterQueries \cup PageQueries

Pending == [status |-> 0]

InitSearch ==
    /\ products \in StoresOf(SearchSamples, MaxProducts)
    /\ categories = InitCategories
    /\ req \in {[op |-> "search", query |-> q] : q \in SearchQueries}
    /\ res = Pending
    /\ pre = [products |-> products, categories |-> categories]
    /\ nops = 0
    /\ users = <<>>
    /\ pc = Idle

SearchProducts ==
    /\ req.op = "search"
    /\ res = Pending
    /\ res' = SearchResult(products, categories, req.query)
    /\ UNCHANGED <<products, categories, users, req, pre, nops, pc>>

NextSearch == SearchProducts

SpecSearch == InitSearch /\ [][NextSearch]_vars

AsksVariant(q) ==
    (Has(q, "size") /\ TruthyStr(q.size)) \/ (Has(q, "color") /\ TruthyStr(q.color))

\* One single variant of p carries every supplied size/color value and, when
\* inStock is 'true', a positive stock.
OneVariantHasAll(p, q) ==
    \E i \in DOMAIN p.variants :
        /\ Has(q, "size") => p.variants[i].size = q.size
        /\ Has(q, "color") => p.variants[i].color = q.color
        /\ Param(q, "inStock") = "true" => p.variants[i].stock > 0

\* C9: when size and/or color is supplied, every product the search returns
\* has one single variant with every supplied size/color value and, when
\* inStock is 'true', with stock > 0.
C9_VariantFilterSameVariant ==
    (req.op = "search" /\ res.status = 200 /\ AsksVariant(req.query)) =>
        \A i \in DOMAIN res.products :
            OneVariantHasAll(FindById(products, res.products[i]._id), req.query)

(***************************************************************************)
(* The reports over a bounded set of stores: a request is pending in the   *)
(* initial state and the handler answers it.                               *)
(***************************************************************************)
ReportKinds ==
    {[price |-> 10, category |-> "c1", variants |-> <<>>],
     [price |-> 10, category |-> Null, variants |-> <<Variant("S", "red", 3)>>],
     [price |-> 3, category |-> "c2",
      variants |-> <<Variant("S", "red", 0), Variant("M", "blue", 25)>>],
     [price |-> 3, category |-> "c1", variants |-> <<Variant("M", "blue", 2)>>],
     [price |-> 10, category |-> "c9", variants |-> <<>>]}

ReportStocks == {0, 1, 2, 5, 6, 20, 21}

ReportSamples ==
    {[_id |-> "p1", name |-> "shirt", description |-> "cotton", price |-> k.price,
      stock |-> st, inventoryLocation |-> Undefined, inventoryStatus |-> Undefined,
      category |-> k.category, createdAt |-> 1, variants |-> k.variants] :
        k \in ReportKinds, st \in ReportStocks}

ReportRequests == {[op |-> "inventoryValue"], [op |-> "stockLevels"]}

InitReports ==
    /\ products \in StoresOf(ReportSamples, MaxProducts)
    /\ categories = InitCategories
    /\ req \in ReportRequests
    /\ res = Pending
    /\ pre = [products |-> products, categories |-> categories]
    /\ nops = 0
    /\ users = <<>>
    /\ pc = Idle

InventoryValueReport ==
    /\ req.op = "inventoryValue"
    /\ res = Pending
    /\ res' = InventoryValueResult(products, categories)
    /\ UNCHANGED <<products, categories, users, req, pre, nops, pc>>

StockLevelsReport ==
    /\ req.op = "stockLevels"
    /\ res = Pending
    /\ res' = StockLevelsResult(products)
    /\ UNCHANGED <<products, categories, users, req, pre, nops, pc>>

NextReports == InventoryValueReport \/ StockLevelsReport

SpecReports == InitReports /\ [][NextReports]_vars

RECURSIVE SumInts(_)
SumInts(s) == IF s = <<>> THEN 0 ELSE Head(s) + SumInts(Tail(s))

SumOver(s, F(_)) == SumInts([i \in DOMAIN s |-> F(s[i])])

CountLevel(level) ==
    res.stockLevels[CHOOSE k \in DOMAIN res.stockLevels :
                        res.stockLevels[k].level = level].count

MainStockIn(S) == Cardinality({i \in DOMAIN products : products[i].stock \in S})

\* C7: the stock-level report counts every product in exactly one bucket, by
\* its main stock alone: 0, 1..5, 6..20, above 20; the counts sum to
\* totalProducts.
C7_StockLevelBuckets ==
    (req.op = "stockLevels" /\ res.status = 200) =>
        /\ [k \in DOMAIN res.stockLevels |-> res.stockLevels[k].level] = StockLevels
        /\ CountLevel("Out of Stock") = MainStockIn({0})
        /\ CountLevel("Low Stock") = MainStockIn(1..5)
        /\ CountLevel("Medium Stock") = MainStockIn(6..20)
        /\ CountLevel("High Stock")
              = Cardinality({i \in DOMAIN products : products[i].stock > 20})
        /\ SumOver(res.stockLevels, LAMBDA l : l.count) = res.stats.totalProducts
        /\ res.stats.totalProducts = Len(products)

\* C7 witness: a product with main stock 5 and a variant stock above 20 is
\* counted as low, one with main stock 6 as medium.
C7_Witness ==
    /\ req.op = "stockLevels"
    /\ res.status = 200
    /\ Len(products) = 2
    /\ products[1].stock = 5
    /\ \E v \in DOMAIN products[1].variants : products[1].variants[v].stock > 20
    /\ products[2].stock = 6
    /\ CountLevel("Low Stock") = 1
    /\ CountLevel("Medium Stock") = 1

CategoryLabel(p) ==
    IF p.category \in CategoryIds(categories)
    THEN (CHOOSE c \in categories : c._id = p.category).name
    ELSE "Uncategorized"

WorthOf(p) == p.price * (p.stock + VariantStockSum(p.variants))

\* C8: totalValue is the sum over the products of price * (main stock + sum of
\* variant stocks); each category entry holds the sum of its products, entries
\* are one per category label, their sum is totalValue; productCount is the
\* number of products.  (Values are in hundredths.)
C8_InventoryValue ==
    (req.op = "inventoryValue" /\ res.status = 200) =>
        /\ res.totalValue = 100 * SumOver(products, WorthOf)
        /\ res.productCount = Len(products)
        /\ {res.categories[i].category : i \in DOMAIN res.categories}
              = {CategoryLabel(products[i]) : i \in DOMAIN products}
        /\ \A i, j \in DOMAIN res.categories :
              res.categories[i].category = res.categories[j].category => i = j
        /\ \A i \in DOMAIN res.categories :
              res.categories[i].value
                = 100 * SumOver(SelectSeq(products,
                            LAMBDA p : CategoryLabel(p) = res.categories[i].category),
                          WorthOf)
        /\ SumOver(res.categories, LAMBDA e : e.value) = res.totalValue

\* C8 witness: price 10, main stock 2 and one variant with stock 3 give 50.00,
\* under 'Uncategorized'.
C8_Witness ==
    /\ req.op = "inventoryValue"
    /\ res.status = 200
    /\ Len(products) = 1
    /\ products[1].price = 10
    /\ products[1].stock = 2
    /\ Len(products[1].variants) = 1
    /\ products[1].variants[1].stock = 3
    /\ res.totalValue = 5000
    /\ res.categories = <<[category |-> "Uncategorized", value |-> 5000]>>

(***************************************************************************)
(* What an inventory update leaves alone.                                  *)
(***************************************************************************)
\* The fields of a product no inventory update names.
OtherFields == {"_id", "name", "description", "createdAt", "price", "category"}

\* The request bodies, among `bodies`, that leave each inventory field alone.
KeepsStock(body) == ~Has(body, "stock")
KeepsLocation(body) == ~Has(body, "location") \/ body.location = ""
KeepsStatus(body) == ~Has(body, "status") \/ body.status = ""
KeepsVariants(body) == ~Has(body, "variants") \/ ~IsArray(body.variants)

\* `new` is `old` after the bodies of the set B were applied to it, as far as
\* the fields are concerned that no body of B supplies.
UnsuppliedFieldsKept(old, new, B) ==
    /\ \A f \in OtherFields : new[f] = old[f]
    /\ (\A b \in B : KeepsStock(b)) => new.stock = old.stock
    /\ (\A b \in B : KeepsLocation(b)) => new.inventoryLocation = old.inventoryLocation
    /\ (\A b \in B : KeepsStatus(b)) => new.inventoryStatus = old.inventoryStatus
    /\ (\A b \in B : KeepsVariants(b)) => new.variants = old.variants

\* The bodies a request addresses to the product `id`.
BodiesFor(r, id) ==
    IF r.op = "update" THEN (IF r.id = id THEN {r.body} ELSE {})
    ELSE IF r.op = "bulk" /\ Has(r.body, "updates") /\ IsArray(r.body.updates)
    THEN {BulkItemsOf(r)[i] : i \in {j \in DOMAIN BulkItemsOf(r) :
                                       BulkItemsOf(r)[j].productId = id}}
    ELSE {}

\* C13: an inventory update, single or batch item, changes only the fields it
\* supplies: stock stays when stock is undefined, location and status stay
\* when they are undefined or the empty string, the variants stay when
\* `variants` is absent or not a list, and a product no update addresses is
\* not modified at all.
C13_OnlySuppliedFieldsChange ==
    (req.op \in {"update", "bulk"}) =>
        /\ Len(products) = Len(pre.products)
        /\ \A i \in DOMAIN pre.products :
              LET old == pre.products[i]
                  new == products[i]
                  B == BodiesFor(req, old._id)
              IN  /\ UnsuppliedFieldsKept(old, new, B)
                  /\ B = {} => new = old

\* C13 witness: a single update stored a new stock while its empty location
\* left the stored location alone and the other product was not touched.
C13_Witness ==
    /\ IsUpdateOk
    /\ Has(req.body, "stock") /\ Has(req.body, "location")
    /\ req.body.location = ""
    /\ FindById(pre.products, req.id).stock # req.body.stock
    /\ FindById(products, req.id).stock = req.body.stock
    /\ FindById(products, req.id).inventoryLocation = "A1"
    /\ \E i \in DOMAIN products :
          products[i]._id # req.id /\ products[i] = pre.products[i]

\* C14: a rejected inventory update leaves the store as it was: a single update
\* of a product id that does not exist answers 404, a bulk update whose
\* `updates` is missing or not a list answers 400, and neither writes.
C14_RejectedUpdatesWriteNothing ==
    /\ (req.op = "update" /\ ~Exists(pre.products, req.id)) =>
          /\ res = NotFound
          /\ products = pre.products
    /\ (req.op = "bulk" /\ ~(Has(req.body, "updates") /\ IsArray(req.body.updates))) =>
          /\ res.status = 400
          /\ products = pre.products

\* C14 witness: an update that carries a stock for an id the store does not
\* hold was answered 404, after an earlier request had changed the store.
C14_Witness ==
    /\ req.op = "update"
    /\ req.id = MissingProductId
    /\ Has(req.body, "stock")
    /\ res.status = 404
    /\ nops = 2
    /\ products # InitProducts

(***************************************************************************)
(* The low-stock alert report over every small store: the request is       *)
(* pending in the initial state and the handler answers it.                *)
(***************************************************************************)
AlertSamples ==
    [_id : {"p1"}, name : {"shirt"}, description : {"cotton"}, createdAt : {1},
     price : {10}, stock : {0, 1, 4, 9},
     inventoryLocation : {Undefined}, inventoryStatus : {Undefined},
     category : {"c1"},
     variants : {<<>>, <<Variant("S", "red", 2)>>,
                 <<Variant("S", "red", 0), Variant("M", "blue", 25)>>,
                 <<Variant("S", "red", 4), Variant("M", "blue", 1)>>}]

AlertThresholdInputs == {<<"2">>, <<"9">>, <<"0">>}

AlertQueries == OptField("threshold", AlertThresholdInputs)

InitAlert ==
    /\ products \in StoresOf(AlertSamples, MaxProducts)
    /\ categories = InitCategories
    /\ req \in {[op |-> "lowStockAlert", query |-> q] : q \in AlertQueries}
    /\ res = Pending
    /\ pre = [products |-> products, categories |-> categories]
    /\ nops = 0
    /\ users = <<>>
    /\ pc = Idle

LowStockAlertReport ==
    /\ req.op = "lowStockAlert"
    /\ res = Pending
    /\ res' = LowStockAlertResult(products, categories, req.query)
    /\ UNCHANGED <<products, categories, users, req, pre, nops, pc>>

NextAlert == LowStockAlertReport

SpecAlert == InitAlert /\ [][NextAlert]_vars

IsAlertAnswer == req.op = "lowStockAlert" /\ res # Pending

\* The stocks of the listed low variants of a report entry.
LowVariantStocks(e) == {e.lowVariants[i].stock : i \in DOMAIN e.lowVariants}

\* Entry e may stand before entry f in the report.
MayPrecede(e, f) ==
    IF e.mainStock.isLow /\ f.mainStock.isLow
    THEN e.mainStock.quantity <= f.mainStock.quantity
    ELSE IF e.mainStock.isLow THEN TRUE
    ELSE IF f.mainStock.isLow THEN FALSE
    ELSE IF LowVariantStocks(f) = {} THEN TRUE
    ELSE IF LowVariantStocks(e) = {} THEN FALSE
    ELSE \E x \in LowVariantStocks(e) : \A y \in LowVariantStocks(f) : x <= y

\* C11: the alert report lists every product whose main stock is low before
\* every product whose main stock is not; the former by ascending main-stock
\* quantity, the latter by ascending lowest low-variant stock, and a product
\* with neither a low main stock nor a low variant after all others.
C11_AlertOrder ==
    IsAlertAnswer =>
        /\ res.count = Len(res.products)
        /\ \A i, j \in DOMAIN res.products :
              i < j => MayPrecede(res.products[i], res.products[j])
        /\ \A i \in DOMAIN res.products :
              LET p == FindById(products, res.products[i]._id)
              IN  /\ res.products[i].mainStock.quantity = p.stock
                  /\ res.products[i].mainStock.isLow
                        = (p.stock > 0 /\ p.stock <= res.threshold)

\* C11 witness: two products with a low main stock were listed in the reverse
\* of the order the store holds them in, the smaller quantity first.
C11_Witness ==
    /\ IsAlertAnswer
    /\ Len(res.products) = 2
    /\ res.products[1]._id = "p2" /\ res.products[2]._id = "p1"
    /\ res.products[1].mainStock.isLow /\ res.products[2].mainStock.isLow
    /\ res.products[1].mainStock.quantity < res.products[2].mainStock.quantity

\* C19: every product the alert report lists has a low main stock or at least
\* one low variant.
C19_ListedProductsAreLow ==
    IsAlertAnswer =>
        \A i \in DOMAIN res.products :
            res.products[i].mainStock.isLow \/ Len(res.products[i].lowVariants) > 0

(***************************************************************************)
(* The statistics of the stock-level report over stores large enough for   *)
(* the average to need rounding.                                           *)
(***************************************************************************)
StatSamples ==
    [_id : {"p1"}, name : {"shirt"}, description : {"cotton"}, createdAt : {1},
     price : {10}, stock : {0, 1, 7},
     inventoryLocation : {Undefined}, inventoryStatus : {Undefined},
     category : {"c1"},
     variants : {<<>>, <<Variant("S", "red", 3), Variant("M", "blue", 25)>>}]

InitStats ==
    /\ products \in StoresOf(StatSamples, MaxStatProducts)
    /\ categories = InitCategories
    /\ req = [op |-> "stockLevels"]
    /\ res = Pending
    /\ pre = [products |-> products, categories |-> categories]
    /\ nops = 0
    /\ users = <<>>
    /\ pc = Idle

NextStats == StockLevelsReport

SpecStats == InitStats /\ [][NextStats]_vars

\* The sample set of the statistics: every main stock and every variant stock,
\* as a sequence (a stock may occur more than once).
RECURSIVE StockSamples(_)
StockSamples(ps) ==
    IF ps = <<>> THEN <<>>
    ELSE <<Head(ps).stock>>
         \o [i \in DOMAIN Head(ps).variants |-> Head(ps).variants[i].stock]
         \o StockSamples(Tail(ps))

SampleValues(ps) == {StockSamples(ps)[i] : i \in DOMAIN StockSamples(ps)}

\* Sum, maximum and minimum of the sample set; all 0 for an empty store.
SumMaxMinRight ==
    /\ res.stats.totalStockItems = SumInts(StockSamples(products))
    /\ products # <<>> =>
          /\ res.stats.maxStock \in SampleValues(products)
          /\ res.stats.minStock \in SampleValues(products)
          /\ \A x \in SampleValues(products) :
                res.stats.minStock <= x /\ x <= res.stats.maxStock
    /\ products = <<>> =>
          /\ res.stats.avgStockPerProduct = 0
          /\ res.stats.minStock = 0
          /\ res.stats.maxStock = 0

IsStatsAnswer == req.op = "stockLevels" /\ res # Pending

\* C12 as stated: the statistics are the sum, maximum and minimum of the
\* sample set, and the reported average (in hundredths) is exactly
\* totalStockItems / number of products.
C12_StockStatsExactAverage ==
    IsStatsAnswer =>
        /\ SumMaxMinRight
        /\ products # <<>> =>
              res.stats.avgStockPerProduct * Len(products)
                 = 100 * res.stats.totalStockItems

\* C12, amended: the statistics are the sum, maximum and minimum of the sample
\* set, and the reported average is totalStockItems / number of products
\* rounded to the nearest hundredth; with no product the average, the minimum
\* and the maximum are 0.
C12_StockStats ==
    IsStatsAnswer =>
        /\ SumMaxMinRight
        /\ products # <<>> =>
              LET n == Len(products)
                  off == res.stats.avgStockPerProduct * n
                            - 100 * res.stats.totalStockItems
              IN  2 * off <= n /\ -2 * off <= n

\* C12 witness: three products with variants whose total is not a multiple
\* of 3, so that the average was rounded, and whose minimum and maximum differ.
C12_Witness ==
    /\ IsStatsAnswer
    /\ Len(products) = 3
    /\ res.stats.totalStockItems % 3 # 0
    /\ \E i \in DOMAIN products : products[i].variants # <<>>
    /\ res.stats.minStock < res.stats.maxStock
    /\ res.stats.avgStockPerProduct * 3 # 100 * res.stats.totalStockItems

(***************************************************************************)
(* Inventory updates whose request bodies carry any integer as a stock.    *)
(***************************************************************************)
AnyStockInputs == {-2, 0, 7}

AnyDeltas == {Variant("S", "red", -1), Variant("S", "blue", 1), Variant("M", "blue", -3)}

AnyStockBodies ==
    {s @@ v :
        s \in OptField("stock", AnyStockInputs),
        v \in OptField("variants", {JsArray(ds) : ds \in SeqsUpTo(AnyDeltas, MaxDeltas)})}

AnyStockItems ==
    {("productId" :> "p1") @@ ("stock" :> -2),
     ("productId" :> "p2") @@ ("stock" :> 7),
     ("productId" :> "p2") @@ ("variants" :> JsArray(<<Variant("S", "red", -1)>>)),
     ("productId" :> "p1") @@ ("stock" :> 0)
        @@ ("variants" :> JsArray(<<Variant("S", "blue", 1)>>)),
     ("productId" :> MissingProductId) @@ ("stock" :> -2)}

UpdateAnyStock ==
    /\ nops < MaxOps
    /\ \E id \in ProductIdInputs, body \in AnyStockBodies :
         LET out == UpdateInventoryResult(products, id, body)
         IN  /\ req' = [op |-> "update", id |-> id, body |-> body]
             /\ products' = out.products
             /\ res' = out.res
    /\ pre' = Snapshot
    /\ nops' = nops + 1
    /\ UNCHANGED <<categories, users, pc>>

BulkUpdateAnyStock ==
    /\ nops < MaxOps
    /\ \E items \in SeqsUpTo(AnyStockItems, MaxBatch) :
         LET body == "updates" :> JsArray(items)
             out == BulkUpdateResult(products, body)
         IN  /\ req' = [op |-> "bulk", body |-> body]
             /\ products' = out.products
             /\ res' = out.res
    /\ pre' = Snapshot
    /\ nops' = nops + 1
    /\ UNCHANGED <<categories, users, pc>>

NextAnyStock == UpdateAnyStock \/ BulkUpdateAnyStock

SpecAnyStock == Init /\ [][NextAnyStock]_vars

NewProduct(id, cat) ==
    [_id |-> id, name |-> "shirt", description |-> "cotton", createdAt |-> 3,
     price |-> 10, stock |-> 1,
     inventoryLocation |-> Undefined, inventoryStatus |-> Undefined,
     category |-> cat, variants |-> <<>>]

\* const category = await Category.findById(categoryId); 404 when absent
DeleteCategoryFind ==
    /\ pc = Idle
    /\ nops < MaxOps
    /\ \E id \in CategoryIdInputs :
         /\ req' = [op |-> "deleteCategory", id |-> id]
         /\ IF id \in CategoryIds(categories)
            THEN /\ pc' = [at |-> "updateMany", id |-> id]
                 /\ res' = Pending
            ELSE /\ pc' = Idle
                 /\ res' = [status |-> 404, message |-> "Category not found"]
    /\ pre' = Snapshot
    /\ nops' = nops + 1
    /\ UNCHANGED <<products, categories, users>>

\* await Product.updateMany({category: categoryId}, {$set: {category: null}})
DeleteCategoryDetach ==
    /\ pc.at = "updateMany"
    /\ products' = DetachCategory(products, pc.id)
    /\ pc' = [at |-> "findByIdAndDelete", id |-> pc.id]
    /\ UNCHANGED <<categories, users, req, res, pre, nops>>

\* await Category.findByIdAndDelete(categoryId); res.status(200)
DeleteCategoryRemove ==
    /\ pc.at = "findByIdAndDelete"
    /\ categories' = RemoveCategory(categories, pc.id)
    /\ res' = [status |-> 200,
               message |-> "Category deleted successfully and associated products updated"]
    /\ pc' = Idle
    /\ UNCHANGED <<products, users, req, pre, nops>>

\* A product update that names a category or null: the category is looked up
\* and the reference is stored when it exists.
UpdateProductCategory ==
    /\ nops < MaxOps
    /\ \E i \in DOMAIN products, c \in CategoryIdInputs \cup {Null} :
         /\ c = Null \/ c \in CategoryIds(categories)
         /\ products' = [products EXCEPT ![i].category = c]
    /\ nops' = nops + 1
    /\ UNCHANGED <<categories, users, req, res, pre, pc>>

\* A product creation that names a category, under the same lookup.
CreateProductInCategory ==
    /\ nops < MaxOps
    /\ Len(products) = Len(InitProducts)
    /\ \E c \in CategoryIdInputs :
         /\ c \in CategoryIds(categories)
         /\ products' = Append(products, NewProduct("p3", c))
    /\ nops' = nops + 1
    /\ UNCHANGED <<categories, users, req, res, pre, pc>>

NextDeleteRace ==
    \/ DeleteCategoryFind
    \/ DeleteCategoryDetach
    \/ DeleteCategoryRemove
    \/ UpdateProductCategory
    \/ CreateProductInCategory

SpecDeleteRace == Init /\ [][NextDeleteRace]_vars

\* C16: in every reachable state, between the steps of deleteCategory
\* included, each product's category is null or the id of a category that
\* exists.
C16_NoDanglingCategory ==
    \A i \in DOMAIN products :
        products[i].category = Null \/ products[i].category \in CategoryIds(categories)

(***************************************************************************)
(* The low-stock query read by read (one step per await), with inventory   *)
(* updates committing between its two reads.  An update takes effect at    *)
(* its save(); `pre` keeps the store the first read saw, and no update     *)
(* commits after the answer, so `products` is then the store the second    *)
(* read saw.                                                               *)
(***************************************************************************)
RaceSamples ==
    [_id : {"p1"}, name : {"shirt"}, description : {"cotton"}, createdAt : {1},
     price : {10}, stock : {3, 12},
     inventoryLocation : {Undefined}, inventoryStatus : {Undefined},
     category : {"c1"},
     variants : {<<>>, <<Variant("S", "red", 2)>>, <<Variant("S", "red", 12)>>}]

RaceParams == {NoFields, "threshold" :> <<"5">>}

RaceBodies ==
    {s @@ v :
        s \in OptField("stock", {3, 12}),
        v \in OptField("variants", {JsArray(<<Variant("S", "red", 2)>>),
                                    JsArray(<<Variant("S", "red", 12)>>)})}

InitLowStockRace ==
    /\ products \in StoresOf(RaceSamples, MaxProducts)
    /\ categories = InitCategories
    /\ req \in {[op |-> "lowStock", params |-> q] : q \in RaceParams}
              \cup {[op |-> "lowStockAlert", query |-> NoFields]}
    /\ res = Pending
    /\ pre = [products |-> products, categories |-> categories]
    /\ nops = 0
    /\ users = <<>>
    /\ pc = Idle

\* const lowStockItems = await Product.find({stock: {$lt: threshold}})...
LowStockReadMain ==
    /\ req.op = "lowStock"
    /\ pc = Idle
    /\ res = Pending
    /\ LET threshold == LowStockThreshold(req.params)
           found == FindLowMainStock(products, threshold)
       IN  pc' = [at |-> "findVariants", threshold |-> threshold,
                  lowStockItems |->
                      [i \in DOMAIN found |-> LowStockView(found[i], categories)]]
    /\ pre' = Snapshot
    /\ UNCHANGED <<products, categories, users, req, res, nops>>

\* product.save() of an inventory update, while the query is between its reads
InventoryUpdateCommits ==
    /\ pc.at = "findVariants"
    /\ nops < MaxOps
    /\ \E i \in DOMAIN products, body \in RaceBodies :
         products' = UpdateInventoryResult(products, products[i]._id, body).products
    /\ nops' = nops + 1
    /\ UNCHANGED <<categories, users, req, res, pre, pc>>

\* const lowVariantStockItems = await Product.find({variants: {$elemMatch...}}),
\* then the merge and the answer
LowStockReadVariants ==
    /\ req.op = "lowStock"
    /\ pc.at = "findVariants"
    /\ LET found == FindLowVariantStock(products, pc.threshold)
           lowVariantStockItems ==
               [i \in DOMAIN found |-> LowStockView(found[i], categories)]
       IN  res' = [status |-> 200,
                   items |-> Combine(pc.lowStockItems, lowVariantStockItems)]
    /\ pc' = Idle
    /\ UNCHANGED <<products, categories, users, req, pre, nops>>

\* const mainStockProducts = await Product.find({stock: {$lte, $gt}})...
AlertReadMain ==
    /\ req.op = "lowStockAlert"
    /\ pc = Idle
    /\ res = Pending
    /\ LET threshold == AlertThreshold(req.query)
       IN  pc' = [at |-> "findVariants", threshold |-> threshold,
                  mainStockProducts |-> AlertMainRead(products, categories, threshold)]
    /\ pre' = Snapshot
    /\ UNCHANGED <<products, categories, users, req, res, nops>>

\* const variantStockProducts = await Product.find({'variants.stock': ...}),
\* then the merge, the processing, the sort and the answer
AlertReadVariants ==
    /\ req.op = "lowStockAlert"
    /\ pc.at = "findVariants"
    /\ res' = AlertAnswer(pc.mainStockProducts,
                          AlertVariantRead(products, categories, pc.threshold),
                          pc.threshold)
    /\ pc' = Idle
    /\ UNCHANGED <<products, categories, users, req, pre, nops>>

NextLowStockRace ==
    \/ LowStockReadMain
    \/ InventoryUpdateCommits
    \/ LowStockReadVariants
    \/ AlertReadMain
    \/ AlertReadVariants

SpecLowStockRace == InitLowStockRace /\ [][NextLowStockRace]_vars

IsRaceAnswer == req.op = "lowStock" /\ res # Pending /\ pc = Idle

IsAlertRaceAnswer == req.op = "lowStockAlert" /\ res # Pending /\ pc = Idle

AlertLow(stock, t) == stock <= t /\ stock > 0

RaceThreshold == LowStockThreshold(req.params)

MainLow(p, t) == p.stock < t
VariantLow(p, t) == \E k \in DOMAIN p.variants : p.variants[k].stock < t
IsLow(p, t) == MainLow(p, t) \/ VariantLow(p, t)

\* C17 as stated: after updates committed between the two reads, a product
\* that is low (main stock or some variant below the threshold) both in the
\* store the first read saw and in the store the second read saw is in the
\* result.
C17_LowBeforeAndAfterIsListed ==
    (IsRaceAnswer /\ nops >= 1) =>
        \A i \in DOMAIN products :
            (IsLow(pre.products[i], RaceThreshold) /\ IsLow(products[i], RaceThreshold))
                => products[i]._id \in ItemIds(res.items)

\* C17, amended: after updates committed between the two reads, a product
\* whose main stock was below the threshold in the store the first read saw,
\* or that has a variant below the threshold in the store the second read
\* saw, is in the result, and the result holds no other product.
C17_SeenLowIsListed ==
    (IsRaceAnswer /\ nops >= 1) =>
        \A i \in DOMAIN products :
            (MainLow(pre.products[i], RaceThreshold) \/ VariantLow(products[i], RaceThreshold))
                <=> products[i]._id \in ItemIds(res.items)

\* C17 witness: an update between the reads raised the main stock of a product
\* above the threshold and left it a low variant; the product is listed.
C17_Witness ==
    /\ IsRaceAnswer
    /\ nops = 1
    /\ \E i \in DOMAIN products :
          /\ MainLow(pre.products[i], RaceThreshold)
          /\ ~MainLow(products[i], RaceThreshold)
          /\ VariantLow(products[i], RaceThreshold)
          /\ products[i]._id \in ItemIds(res.items)

\* The low-stock query's part of C18.
LowStockNoDuplicateUnderRace ==
    IsRaceAnswer =>
        /\ \A i, j \in DOMAIN res.items :
              res.items[i]._id = res.items[j]._id => i = j
        /\ \A i \in DOMAIN res.items :
              LET id == res.items[i]._id
              IN  MainLow(FindById(pre.products, id), RaceThreshold)
                     => res.items[i] = LowStockView(FindById(pre.products, id), categories)

\* C18 for the alert report, whose handler merges its two reads the same way.
AlertNoDuplicateUnderRace ==
    IsAlertRaceAnswer =>
        /\ \A i, j \in DOMAIN res.products :
              res.products[i]._id = res.products[j]._id => i = j
        /\ \A i \in DOMAIN res.products :
              LET old == FindById(pre.products, res.products[i]._id)
              IN  AlertLow(old.stock, res.threshold)
                     => res.products[i] = ProcessProduct(AlertView(old, categories),
                                                         res.threshold)

\* C18: whatever updates commit between the two reads of the low-stock query
\* or of the alert report, the result holds no product id twice, and a
\* product both reads returned appears with the contents the first read saw.
C18_NoDuplicateUnderRace == LowStockNoDuplicateUnderRace /\ AlertNoDuplicateUnderRace

\* C18 witness: a product returned by both reads was changed between them and
\* is listed once, with the stock the first read saw.
C18_Witness ==
    /\ IsRaceAnswer
    /\ \E i \in DOMAIN res.items :
          LET id == res.items[i]._id
          IN  /\ MainLow(FindById(pre.products, id), RaceThreshold)
              /\ VariantLow(FindById(products, id), RaceThreshold)
              /\ FindById(products, id) # FindById(pre.products, id)
              /\ res.items[i].stock = FindById(pre.products, id).stock
              /\ res.items[i].stock # FindById(products, id).stock

(***************************************************************************)
(* The middleware of the admin routes: isAuth, then isAdmin, then the      *)
(* route's handler.  jwt.verify is a table from token to payload.          *)
(***************************************************************************)
\* req.user.isActive as a condition: a path the document does not hold reads
\* undefined, which is falsy.
IsActive(user) == Has(user, "isActive") /\ user.isActive

\* jwt.verify(token, process.env.JWT_SECRET): the payload, or a throw.
JwtVerify(token) ==
    IF token = "tokU1" THEN [ok |-> TRUE, id |-> "u1"]
    ELSE IF token = "tokU2" THEN [ok |-> TRUE, id |-> "u2"]
    ELSE IF token = "tokU3" THEN [ok |-> TRUE, id |-> "u3"]
    ELSE [ok |-> FALSE]

\* req.headers.authorization.startsWith('Bearer'), on the header's first word
StartsWithBearer(word) == word \in {"Bearer", "BearerX"}

\* token = req.headers.authorization.split(' ')[1] under the Bearer test; the
\* header is the list of its blank-separated words, and absent when there is
\* none.
TokenOf(headers) ==
    IF Has(headers, "authorization")
       /\ Len(headers.authorization) >= 1
       /\ StartsWithBearer(headers.authorization[1])
       /\ Len(headers.authorization) >= 2
    THEN headers.authorization[2]
    ELSE Undefined

UserIds(us) == {us[i]._id : i \in DOMAIN us}

FindUserById(us, id) == us[CHOOSE i \in DOMAIN us : us[i]._id = id]

Unauthorized(message) == [status |-> 401, message |-> message]

\* User.findByIdAndUpdate(req.user._id, {lastLogin: Date.now()})
TouchLastLogin(us, id) ==
    [i \in DOMAIN us |-> IF us[i]._id = id THEN [us[i] EXCEPT !.lastLogin = 1] ELSE us[i]]

\* isAuth: `next` tells whether next() was called.
IsAuth(us, headers) ==
    LET token == TokenOf(headers)
        decoded == JwtVerify(token)
    IN  IF token = Undefined
        THEN [next |-> FALSE, users |-> us,
              res |-> Unauthorized("You are not authorized. There is no token")]
        ELSE IF ~decoded.ok
        THEN [next |-> FALSE, users |-> us,
              res |-> Unauthorized("Not authorized, token failed")]
        ELSE IF decoded.id \notin UserIds(us)
        THEN [next |-> FALSE, users |-> us,
              res |-> Unauthorized("Not authorized, user not found")]
        ELSE IF ~IsActive(FindUserById(us, decoded.id))
        THEN [next |-> FALSE, users |-> us,
              res |-> Unauthorized("Account is inactive. Please contact support.")]
        ELSE [next |-> TRUE, users |-> TouchLastLogin(us, decoded.id),
              user |-> FindUserById(us, decoded.id)]

\* isAdmin
IsAdmin(user) ==
    IF user.role = "admin" THEN [next |-> TRUE]
    ELSE [next |-> FALSE, res |-> [status |-> 403, message |-> "Not authorized as admin"]]

\* router.put('/:id', isAuth, isAdmin, handler)
AdminRouteResult(ps, us, r) ==
    LET auth == IsAuth(us, r.headers)
    IN  IF ~auth.next
        THEN [products |-> ps, users |-> auth.users, res |-> auth.res, handled |-> FALSE]
        ELSE IF ~IsAdmin(auth.user).next
        THEN [products |-> ps, users |-> auth.users,
              res |-> IsAdmin(auth.user).res, handled |-> FALSE]
        ELSE LET out == UpdateInventoryResult(ps, r.id, r.body)
             IN  [products |-> out.products, users |-> auth.users,
                  res |-> out.res, handled |-> TRUE]

\* User documents as the User schema stores them.
UserDocs(id) ==
    [_id : {id}, name : {"Ann"}, role : {"user", "admin"}, lastLogin : {0}]

UserStores ==
    {<<>>}
    \cup {<<u>> : u \in UserDocs("u1") \cup UserDocs("u2")}
    \cup {<<u, v>> : u \in UserDocs("u1"), v \in UserDocs("u2")}

AuthHeaders ==
    {NoFields}
    \cup {"authorization" :> h :
            h \in {<<"Bearer">>, <<"Basic", "tokU1">>, <<"BearerX", "tokU1">>}
                  \cup {<<"Bearer", t>> : t \in {"tokU1", "tokU2", "tokU3", "tokBad"}}}

AuthRequests ==
    {[op |-> "update", id |-> id, body |-> body, headers |-> h] :
        id \in {"p1", MissingProductId},
        body \in {"stock" :> 0, "location" :> "B2"},
        h \in AuthHeaders}

InitAuth ==
    /\ products = InitProducts
    /\ categories = InitCategories
    /\ users \in UserStores
    /\ req \in AuthRequests
    /\ res = Pending
    /\ pre = [products |-> InitProducts, categories |-> InitCategories]
    /\ nops = 0
    /\ pc = Idle

AdminRoute ==
    /\ res = Pending
    /\ LET out == AdminRouteResult(products, users, req)
       IN  /\ products' = out.products
           /\ users' = out.users
           /\ res' = out.res
           /\ pc' = [at |-> "done", handled |-> out.handled]
    /\ pre' = Snapshot
    /\ UNCHANGED <<categories, req, nops>>

NextAuth == AdminRoute

SpecAuth == InitAuth /\ [][NextAuth]_vars

\* The request carries a Bearer token that verifies to a stored user whose
\* role is admin.
CarriesAdminToken ==
    /\ TokenOf(req.headers) # Undefined
    /\ JwtVerify(TokenOf(req.headers)).ok
    /\ JwtVerify(TokenOf(req.headers)).id \in UserIds(users)
    /\ FindUserById(users, JwtVerify(TokenOf(req.headers)).id).role = "admin"

\* C20: a request to an admin route reaches the handler exactly when it
\* carries a Bearer token that verifies to a stored user whose role is admin;
\* every other request is answered 401 or 403 and changes no product.
C20_AdminGate ==
    (req.op = "update" /\ Has(req, "headers") /\ res # Pending) =>
        /\ pc.handled <=> CarriesAdminToken
        /\ ~pc.handled =>
              /\ res.status \in {401, 403}
              /\ products = pre.products

(***************************************************************************)
(* updateCategory step by step (one step per await).  A store call either  *)
(* completes or rejects; which, is the store's choice.  `pc` counts the    *)
(* responses the handler has sent and keeps the path it took.              *)
(***************************************************************************)
MalformedCategoryId == "not-an-id"

\* mongoose.Types.ObjectId.isValid(req.params.id)
IsValidObjectId(id) == id # MalformedCategoryId

CategoryNameInputs == {"clothes", "kitchen", "toys"}

CategoryStores == SUBSET InitCategories

UpdateCategoryRequests ==
    {[op |-> "updateCategory", id |-> id, body |-> ("name" :> n)] :
        id \in CategoryIdInputs \cup {MalformedCategoryId},
        n \in CategoryNameInputs}

\* The unique index on the name: another category holds it (error code 11000).
DuplicateName(cs, id, name) == \E c \in cs : c._id # id /\ c.name = name

\* Category.findByIdAndUpdate(id, {name}, {new: true})
RenameCategory(cs, id, name) ==
    {IF c._id = id THEN [c EXCEPT !.name = name] ELSE c : c \in cs}

Returned(path, responses) == [at |-> "returned", path |-> path, responses |-> responses]

InitUpdateCategory ==
    /\ products = InitProducts
    /\ categories \in CategoryStores
    /\ req \in UpdateCategoryRequests
    /\ res = Pending
    /\ pre = [products |-> InitProducts, categories |-> categories]
    /\ nops = 0
    /\ users = <<>>
    /\ pc = Idle

\* The id test, then `await Category.findById(req.params.id)` and the 404
UpdateCategoryFind ==
    /\ pc = Idle
    /\ res = Pending
    /\ IF ~IsValidObjectId(req.id)
       THEN /\ res' = [status |-> 400, message |-> "Invalid category ID format"]
            /\ pc' = Returned("malformed", 1)
       ELSE \E rejects \in BOOLEAN :
              IF rejects
              THEN \* catch: error.code is not 11000, nothing is sent
                   /\ res' = res
                   /\ pc' = Returned("storeError", 0)
              ELSE IF req.id \notin CategoryIds(categories)
              THEN /\ res' = [status |-> 404, message |-> "Category not found"]
                   /\ pc' = Returned("absent", 1)
              ELSE /\ res' = res
                   /\ pc' = [at |-> "findByIdAndUpdate"]
    /\ UNCHANGED <<products, categories, users, req, pre, nops>>

\* `await Category.findByIdAndUpdate(...)`, the 200 and the catch block
UpdateCategoryWrite ==
    /\ pc.at = "findByIdAndUpdate"
    /\ IF DuplicateName(categories, req.id, req.body.name)
       THEN /\ res' = [status |-> 400, message |-> "Category name already exists"]
            /\ pc' = Returned("duplicate", 1)
            /\ UNCHANGED categories
       ELSE \E rejects \in BOOLEAN :
              IF rejects
              THEN /\ res' = res
                   /\ pc' = Returned("storeError", 0)
                   /\ UNCHANGED categories
              ELSE /\ categories' = RenameCategory(categories, req.id, req.body.name)
                   /\ res' = [status |-> 200,
                              category |-> [_id |-> req.id, name |-> req.body.name]]
                   /\ pc' = Returned("updated", 1)
    /\ UNCHANGED <<products, users, req, pre, nops>>

NextUpdateCategory == UpdateCategoryFind \/ UpdateCategoryWrite

\* The event loop runs every continuation that is ready.
SpecUpdateCategory ==
    InitUpdateCategory /\ [][NextUpdateCategory]_vars /\ WF_vars(NextUpdateCategory)

\* The status the claim gives each path of the handler.
ExpectedStatus ==
    ("malformed" :> 400) @@ ("absent" :> 404) @@ ("updated" :> 200)
    @@ ("duplicate" :> 400) @@ ("storeError" :> 500)

\* C21: every updateCategory request eventually receives exactly one
\* response: 400 for a malformed id, 404 for a missing category, 200 with the
\* updated category, 400 for a duplicate name and 500 for any other store
\* error.
C21_UpdateCategoryAnswered ==
    <>(/\ pc.at = "returned"
       /\ pc.responses = 1
       /\ res.status = ExpectedStatus[pc.path])

====
